---------------------------- MODULE Spec2Model ----------------------------
(***************************************************************************)
(* Model of the carburacy scorer of run_generation_transfert_learning.py:  *)
(* calculate_carburacy (lines 130-135) and get_carburacy (lines 137-143).  *)
(*                                                                         *)
(* Python floats are modelled as exact rationals [num, den] in lowest      *)
(* terms; None is a value of its own.  The field operations (+, *, /) are  *)
(* exact.  math.log and math.exp are computed by series in fixed point     *)
(* (Prec units per 1) and the result of math.exp is rounded to AdjDen      *)
(* units per 1.  IEEE-754 rounding, underflow and overflow are not part of *)
(* the model.  A Python exception is a value of the field "raised".        *)
(***************************************************************************)
EXTENDS Integers, Sequences, FiniteSets, TLC

(***************************************************************************)
(* Bounds of the input grid.                                               *)
(***************************************************************************)
MaxScoreK == 5
MaxEmissionK == 2
MaxBeta == 2

(***************************************************************************)
(* Values: floats as rationals, and None.                                  *)
(***************************************************************************)
None == [none |-> TRUE, num |-> 0, den |-> 1]

Abs(x) == IF x < 0 THEN -x ELSE x

RECURSIVE GCD(_, _)
GCD(a, b) == IF b = 0 THEN a ELSE GCD(b, a % b)

\* The float n/d (d # 0), in lowest terms with a positive denominator.
Rat(n, d) ==
    LET g == GCD(Abs(n), Abs(d))
        s == IF d < 0 THEN -1 ELSE 1
    IN  [none |-> FALSE, num |-> s * (n \div g), den |-> s * (d \div g)]

Int2Rat(n) == Rat(n, 1)

\* x + y
RAdd(x, y) ==
    LET g == GCD(x.den, y.den)
        l == (x.den \div g) * y.den
    IN  Rat(x.num * (l \div x.den) + y.num * (l \div y.den), l)

\* x * y, cancelling across before multiplying
RMul(x, y) ==
    LET g1 == GCD(Abs(x.num), y.den)
        g2 == GCD(Abs(y.num), x.den)
    IN  Rat((x.num \div g1) * (y.num \div g2), (x.den \div g2) * (y.den \div g1))

\* x / y for y # 0
RDiv(x, y) == RMul(x, Rat(y.den, y.num))

RLess(x, y) == x.num * y.den < y.num * x.den
RLeq(x, y) == x.num * y.den <= y.num * x.den

(***************************************************************************)
(* math.log and math.exp in fixed point.                                   *)
(***************************************************************************)
\* fixed-point units per 1 inside log and exp
Prec == 10^5
\* ln 2 in fixed point
Ln2 == 69315
\* units per 1 of the rounded result of math.exp
AdjDen == 10^3

\* a / b rounded to the nearest integer, b > 0
RoundDiv(a, b) == (a + b \div 2) \div b

RECURSIVE FloorLog2(_)
FloorLog2(k) == IF k < 2 THEN 0 ELSE 1 + FloorLog2(k \div 2)

\* sum over j = i, i+2, .. <= last of z^j / j, where zj = z^j and z2 = z^2
RECURSIVE AtanhSeries(_, _, _, _)
AtanhSeries(zj, z2, j, last) ==
    IF j > last \/ zj = 0 THEN 0
    ELSE RoundDiv(zj, j) + AtanhSeries(RoundDiv(zj * z2, Prec), z2, j + 2, last)

\* ln k for an integer k >= 1: k = m * 2^p with 1 <= m < 2 and
\* ln m = 2 atanh((m - 1) / (m + 1))
LnInt(k) ==
    LET p == FloorLog2(k)
        z == RoundDiv((k - 2^p) * Prec, k + 2^p)
    IN  p * Ln2 + 2 * AtanhSeries(z, RoundDiv(z * z, Prec), 1, 11)

\* ln x for a float x > 0
Ln(x) == LnInt(x.num) - LnInt(x.den)

\* sum over j = i .. 12 of r^j / j!, where t = r^i / i! and |r| < 1/2
RECURSIVE ExpSeries(_, _, _)
ExpSeries(t, r, i) ==
    IF t = 0 \/ i > 12 THEN 0
    ELSE t + ExpSeries(RoundDiv(RoundDiv(t * r, Prec), i + 1), r, i + 1)

\* e^y for y in fixed point: y = k ln 2 + r with |r| <= ln 2 / 2; the
\* result is a float with denominator AdjDen
Exp(y) ==
    LET k == RoundDiv(y, Ln2)
        r == y - k * Ln2
        e == Prec + ExpSeries(r, r, 1)
        scaled == IF k >= 0 THEN e * 2^k ELSE RoundDiv(e, 2^(-k))
    IN  Rat(RoundDiv(scaled, Prec \div AdjDen), AdjDen)

\* the first n decimal digits of rem / b as an integer, 0 <= rem < b
RECURSIVE FracDigits(_, _, _)
FracDigits(rem, b, n) ==
    IF n = 0 THEN 0
    ELSE ((rem * 10) \div b) * 10^(n - 1) + FracDigits((rem * 10) % b, b, n - 1)

\* a / b in fixed point for fixed-point a and b # 0 (5 = the digits of Prec)
FixDiv(a, b) ==
    LET s == IF (a < 0) = (b < 0) THEN 1 ELSE -1
        q == Abs(a) \div Abs(b)
    IN  s * (q * Prec + FracDigits(Abs(a) % Abs(b), Abs(b), 5))

(***************************************************************************)
(* Results of calls: a returned value or a raised exception.               *)
(***************************************************************************)
Return(v) == [raised |-> "", val |-> v]
Raise(e) == [raised |-> e, val |-> None]

\* Mutant of Log: a base below 1 is rejected like a base below 0.
Log_RejectsBaseBelowOne(x, base) ==
    IF x.num <= 0 THEN Raise("ValueError")
    ELSE IF base.num < base.den THEN Raise("ValueError")
    ELSE IF Ln(base) = 0 THEN Raise("ZeroDivisionError")
    ELSE Return(FixDiv(Ln(x), Ln(base)))

\* math.log(x, base): ln x is evaluated first, then ln base, then the
\* quotient; the value is in fixed point
Log(x, base) ==
    IF x.num <= 0 THEN Raise("ValueError")
    ELSE IF base.num <= 0 THEN Raise("ValueError")
    ELSE IF Ln(base) = 0 THEN Raise("ZeroDivisionError")
    ELSE Return(FixDiv(Ln(x), Ln(base)))

\* Mutant of ScoreAdjustment: alpha ** log(normalized_score, alpha), the identity.
ScoreAdjustment_Identity(normalized_score, alpha) ==
    LET l == Log(normalized_score, alpha)
    IN  IF l.raised # "" THEN l ELSE Return(normalized_score)

\* Mutant of ScoreAdjustment: a score <= 0 silently gives the adjustment 0.
ScoreAdjustment_SilentZero(normalized_score, alpha) ==
    LET l == Log(normalized_score, alpha)
    IN  IF normalized_score.num <= 0 THEN Return(Rat(0, 1))
        ELSE IF l.raised # "" THEN l ELSE Return(Exp(l.val))

\* math.exp(math.log(normalized_score, alpha))
ScoreAdjustment(normalized_score, alpha) ==
    LET l == Log(normalized_score, alpha)
    IN  IF l.raised # "" THEN l ELSE Return(Exp(l.val))

\* Mutant of calculate_carburacy: the logarithm is taken before the test for None.
calculate_carburacy_LogBeforeNoneTest(score, emission, beta, alpha) ==
    LET score_adjustment == ScoreAdjustment(RDiv(score, Int2Rat(100)), alpha)
    IN  IF score_adjustment.raised # "" THEN score_adjustment
        ELSE IF emission = None THEN Return(None)
        ELSE LET penalty == RAdd(Int2Rat(1), RMul(emission, beta))
             IN  IF penalty.num = 0 THEN Raise("ZeroDivisionError")
                 ELSE Return(RDiv(score_adjustment.val, penalty))

\* Mutant of calculate_carburacy: a missing emission gives 0 instead of None.
calculate_carburacy_ZeroForMissing(score, emission, beta, alpha) ==
    IF emission # None
    THEN LET score_adjustment == ScoreAdjustment(RDiv(score, Int2Rat(100)), alpha)
             penalty == RAdd(Int2Rat(1), RMul(emission, beta))
         IN  IF score_adjustment.raised # "" THEN score_adjustment
             ELSE IF penalty.num = 0 THEN Raise("ZeroDivisionError")
             ELSE Return(RDiv(score_adjustment.val, penalty))
    ELSE Return(Rat(0, 1))

\* Mutant of calculate_carburacy: the adjustment is multiplied by the penalty.
calculate_carburacy_PenaltyMultiplied(score, emission, beta, alpha) ==
    IF emission # None
    THEN LET score_adjustment == ScoreAdjustment(RDiv(score, Int2Rat(100)), alpha)
             penalty == RAdd(Int2Rat(1), RMul(emission, beta))
         IN  IF score_adjustment.raised # "" THEN score_adjustment
             ELSE Return(RMul(score_adjustment.val, penalty))
    ELSE Return(None)

\* Mutant of calculate_carburacy: "if emission:" in place of "is not None", so
\* that an emission of 0 counts as missing.
calculate_carburacy_Truthiness(score, emission, beta, alpha) ==
    IF emission # None /\ emission.num # 0
    THEN LET score_adjustment == ScoreAdjustment(RDiv(score, Int2Rat(100)), alpha)
             penalty == RAdd(Int2Rat(1), RMul(emission, beta))
         IN  IF score_adjustment.raised # "" THEN score_adjustment
             ELSE IF penalty.num = 0 THEN Raise("ZeroDivisionError")
             ELSE Return(RDiv(score_adjustment.val, penalty))
    ELSE Return(None)

calculate_carburacy(score, emission, beta, alpha) ==
    IF emission # None
    THEN LET normalized_score == RDiv(score, Int2Rat(100))
             score_adjustment == ScoreAdjustment(normalized_score, alpha)
             penalty == RAdd(Int2Rat(1), RMul(emission, beta))
         IN  IF score_adjustment.raised # "" THEN score_adjustment
             ELSE IF penalty.num = 0 THEN Raise("ZeroDivisionError")
             ELSE Return(RDiv(score_adjustment.val, penalty))
    ELSE Return(None)

\* Mutant of HarmonicMean: the factor 2 is missing.
HarmonicMean_NoFactorTwo(x, y) ==
    LET gn == GCD(Abs(x.num), Abs(y.num))
        gd == GCD(x.den, y.den)
        nx == x.num \div gn
        ny == y.num \div gn
        dx == x.den \div gd
        dy == y.den \div gd
    IN  RMul(Rat(gn, gd), Rat(nx * ny, nx * dy + ny * dx))

\* (2 * x * y) / (x + y) for x + y # 0, which is 2 nx ny / (nx dy + ny dx);
\* the common factors of the numerators and of the denominators are taken
\* out first
HarmonicMean(x, y) ==
    LET gn == GCD(Abs(x.num), Abs(y.num))
        gd == GCD(x.den, y.den)
        nx == x.num \div gn
        ny == y.num \div gn
        dx == x.den \div gd
        dy == y.den \div gd
    IN  RMul(Rat(2 * gn, gd), Rat(nx * ny, nx * dy + ny * dx))

\* Mutant of get_carburacy: the two weights are swapped.
get_carburacy_SwappedBetas(score, emission_train, emission_test, alpha, beta_train, beta_test) ==
    LET carburacy_train == calculate_carburacy(score, emission_train, beta_test, alpha)
        carburacy_test == calculate_carburacy(score, emission_test, beta_train, alpha)
    IN  IF carburacy_train.raised # "" THEN Raise(carburacy_train.raised)
        ELSE IF carburacy_test.raised # "" THEN Raise(carburacy_test.raised)
        ELSE IF carburacy_train.val # None /\ carburacy_test.val # None
        THEN IF RAdd(carburacy_train.val, carburacy_test.val).num = 0
             THEN Raise("ZeroDivisionError")
             ELSE Return(<<carburacy_train.val, carburacy_test.val,
                           HarmonicMean(carburacy_train.val, carburacy_test.val)>>)
        ELSE Return(<<carburacy_train.val, carburacy_test.val, None>>)

\* Mutant of get_carburacy: beta_train weighs both phases.
get_carburacy_SharedBeta(score, emission_train, emission_test, alpha, beta_train, beta_test) ==
    LET carburacy_train == calculate_carburacy(score, emission_train, beta_train, alpha)
        carburacy_test == calculate_carburacy(score, emission_test, beta_train, alpha)
    IN  IF carburacy_train.raised # "" THEN Raise(carburacy_train.raised)
        ELSE IF carburacy_test.raised # "" THEN Raise(carburacy_test.raised)
        ELSE IF carburacy_train.val # None /\ carburacy_test.val # None
        THEN IF RAdd(carburacy_train.val, carburacy_test.val).num = 0
             THEN Raise("ZeroDivisionError")
             ELSE Return(<<carburacy_train.val, carburacy_test.val,
                           HarmonicMean(carburacy_train.val, carburacy_test.val)>>)
        ELSE Return(<<carburacy_train.val, carburacy_test.val, None>>)

get_carburacy(score, emission_train, emission_test, alpha, beta_train, beta_test) ==
    LET carburacy_train == calculate_carburacy(score, emission_train, beta_train, alpha)
        carburacy_test == calculate_carburacy(score, emission_test, beta_test, alpha)
    IN  IF carburacy_train.raised # "" THEN Raise(carburacy_train.raised)
        ELSE IF carburacy_test.raised # "" THEN Raise(carburacy_test.raised)
        ELSE IF carburacy_train.val # None /\ carburacy_test.val # None
        THEN IF RAdd(carburacy_train.val, carburacy_test.val).num = 0
             THEN Raise("ZeroDivisionError")
             ELSE Return(<<carburacy_train.val, carburacy_test.val,
                           HarmonicMean(carburacy_train.val, carburacy_test.val)>>)
        ELSE Return(<<carburacy_train.val, carburacy_test.val, None>>)

\* the defaults of the signature of get_carburacy
default_alpha == 10
default_beta_train == 1
default_beta_test == 100

(***************************************************************************)
(* get_dataset_columns: the split whose columns are used.  raw_datasets is *)
(* a function from the names of the splits present to their column_names,  *)
(* training_args a record of the three flags.                              *)
(***************************************************************************)
\* Mutant of get_dataset_columns: a missing split falls through to the next flag.
get_dataset_columns_FallsThrough(raw_datasets, training_args) ==
    IF training_args.do_train /\ "train" \in DOMAIN raw_datasets
    THEN Return(<<"train", raw_datasets["train"]>>)
    ELSE IF training_args.do_eval /\ "validation" \in DOMAIN raw_datasets
    THEN Return(<<"validation", raw_datasets["validation"]>>)
    ELSE IF training_args.do_test /\ "test" \in DOMAIN raw_datasets
    THEN Return(<<"test", raw_datasets["test"]>>)
    ELSE IF training_args.do_train \/ training_args.do_eval \/ training_args.do_test
    THEN Raise("ValueError")
    ELSE Raise("AttributeError")

get_dataset_columns(raw_datasets, training_args) ==
    IF training_args.do_train
    THEN IF "train" \notin DOMAIN raw_datasets
         THEN Raise("ValueError")
         ELSE Return(<<"train", raw_datasets["train"]>>)
    ELSE IF training_args.do_eval
    THEN IF "validation" \notin DOMAIN raw_datasets
         THEN Raise("ValueError")
         ELSE Return(<<"validation", raw_datasets["validation"]>>)
    ELSE IF training_args.do_test
    THEN IF "test" \notin DOMAIN raw_datasets
         THEN Raise("ValueError")
         ELSE Return(<<"test", raw_datasets["test"]>>)
    ELSE Raise("AttributeError")

(***************************************************************************)
(* predict (module utils): the inference loop is bracketed by a tracker    *)
(* and the record it reports carries get_carburacy of the score, of the    *)
(* train_emissions it was handed and of the emission it measured.          *)
(***************************************************************************)
predict(score, train_emissions, emission_test) ==
    get_carburacy(score, train_emissions, emission_test,
                  Int2Rat(default_alpha), Int2Rat(default_beta_train),
                  Int2Rat(default_beta_test))

(***************************************************************************)
(* The state machine: the arguments of one call, drawn from the input      *)
(* grid, and then one call of calculate_carburacy (for the train or the    *)
(* test phase) or of get_carburacy with them.                              *)
(***************************************************************************)
VARIABLES score, emission_train, emission_test, alpha, beta_train, beta_test,
          fn, phase, raised, result,
          defaulted,   \* alpha, beta_train and beta_test were omitted in the call
          do_train, do_eval, do_test,   \* training_args of main
          raw_datasets,    \* split name -> column_names, for the splits present
          pc,              \* main's position
          column_names,    \* <<>> until main binds it
          train_emissions, \* <<>> until main binds it
          events,          \* the calls main has made, in order
          main_raised      \* the exception that ended main, "" if none

mainvars == <<do_train, do_eval, do_test, raw_datasets, pc, column_names,
              train_emissions, events, main_raised>>

vars == <<score, emission_train, emission_test, alpha, beta_train, beta_test,
          fn, phase, raised, result, defaulted, mainvars>>

\* main is not running
MainIdle ==
    /\ do_train = FALSE /\ do_eval = FALSE /\ do_test = FALSE
    /\ raw_datasets = <<>>
    /\ pc = "idle"
    /\ column_names = <<>>
    /\ train_emissions = <<>>
    /\ events = <<>>
    /\ main_raised = ""

args == <<score, emission_train, emission_test, alpha, beta_train, beta_test>>

\* quality scores on the 0..100 scale, and below and above it
Scores == {Int2Rat(20 * k) : k \in -1 .. MaxScoreK}

\* an emission is None, 0, 0.01 or a multiple of 0.5
Emissions == {None, Int2Rat(0), Rat(1, 100)} \cup {Rat(k, 2) : k \in 1 .. MaxEmissionK}

\* log bases: negative, 0, inside (0, 1), 1, and above 1 (10 is the default)
Alphas == {Int2Rat(-1), Int2Rat(0), Rat(1, 2), Int2Rat(1), Int2Rat(2), Int2Rat(10)}

\* emission weights: 1 and 100 are the defaults; -2 is outside the documented range
Betas == {Int2Rat(-2), Int2Rat(100)} \cup {Int2Rat(k) : k \in 1 .. MaxBeta}

Init ==
    /\ score \in Scores
    /\ emission_train \in Emissions
    /\ emission_test \in Emissions
    /\ alpha \in Alphas
    /\ beta_train \in Betas
    /\ beta_test \in Betas
    /\ fn = ""
    /\ phase = ""
    /\ raised = ""
    /\ result = <<>>
    /\ defaulted = FALSE
    /\ MainIdle

EmissionOf(ph) == IF ph = "train" THEN emission_train ELSE emission_test
BetaOf(ph) == IF ph = "train" THEN beta_train ELSE beta_test

\* calculate_carburacy(score, emission, beta, alpha) with one phase's emission and weight
Call_calculate_carburacy ==
    /\ fn = ""
    /\ \E ph \in {"train", "test"} :
          LET r == calculate_carburacy(score, EmissionOf(ph), BetaOf(ph), alpha)
          IN  /\ fn' = "calculate_carburacy"
              /\ phase' = ph
              /\ raised' = r.raised
              /\ result' = IF r.raised = "" THEN <<r.val>> ELSE <<>>
    /\ UNCHANGED <<args, defaulted, mainvars>>

\* get_carburacy(score, emission_train, emission_test, alpha, beta_train, beta_test)
Call_get_carburacy ==
    /\ fn = ""
    /\ LET r == get_carburacy(score, emission_train, emission_test, alpha,
                              beta_train, beta_test)
       IN  /\ fn' = "get_carburacy"
           /\ phase' = ""
           /\ raised' = r.raised
           /\ result' = IF r.raised = "" THEN r.val ELSE <<>>
    /\ UNCHANGED <<args, defaulted, mainvars>>

\* get_carburacy(score, emission_train, emission_test): the three omitted
\* parameters are bound to their defaults
Call_get_carburacy_defaults ==
    /\ fn = ""
    /\ alpha' = Int2Rat(default_alpha)
    /\ beta_train' = Int2Rat(default_beta_train)
    /\ beta_test' = Int2Rat(default_beta_test)
    /\ LET r == get_carburacy(score, emission_train, emission_test, alpha',
                              beta_train', beta_test')
       IN  /\ fn' = "get_carburacy"
           /\ phase' = ""
           /\ raised' = r.raised
           /\ result' = IF r.raised = "" THEN r.val ELSE <<>>
    /\ defaulted' = TRUE
    /\ UNCHANGED <<score, emission_train, emission_test, mainvars>>

Next ==
    \/ Call_calculate_carburacy
    \/ Call_get_carburacy
    \/ Call_get_carburacy_defaults

Spec == Init /\ [][Next]_vars

(***************************************************************************)
(* Vocabulary of the properties.                                           *)
(***************************************************************************)
Zero == Int2Rat(0)
One == Int2Rat(1)
Hundred == Int2Rat(100)

Inv(x) == Rat(x.den, x.num)

\* 1 + emission * beta, the divisor of line 134
Penalty(emission, beta) == RAdd(One, RMul(emission, beta))

\* score in (0, 100]
ScoreInRange == RLess(Zero, score) /\ RLeq(score, Hundred)
\* alpha > 1
AlphaAboveOne == RLess(One, alpha)

CalledCalculate == fn = "calculate_carburacy"
CalledGet == fn = "get_carburacy"

\* |x - milli / 1000| <= 2 / 1000
Near(x, milli) == Abs(x.num * 1000 - milli * x.den) <= 2 * x.den

(***************************************************************************)
(* C1: whenever get_carburacy returns, its third element is the harmonic   *)
(* mean of the first two if both are defined (stated through the          *)
(* reciprocals: 2/c = 1/c_train + 1/c_test, and c = 0 if one of them is    *)
(* 0), and it is None if at least one of the first two is None.            *)
(***************************************************************************)
C1_CombinedIsHarmonicMean ==
    (CalledGet /\ raised = "") =>
        LET ct == result[1]
            cs == result[2]
            c == result[3]
        IN  IF ct # None /\ cs # None
            THEN /\ c # None
                 /\ IF ct.num = 0 \/ cs.num = 0
                    THEN c.num = 0
                    ELSE c.num # 0 /\ RMul(Int2Rat(2), Inv(c)) = RAdd(Inv(ct), Inv(cs))
            ELSE c = None

C1_Witness ==
    /\ CalledGet /\ raised = ""
    /\ result[1] # None /\ result[2] # None
    /\ result[1] # result[2]
    /\ result[3] # None

(***************************************************************************)
(* C2: calculate_carburacy with emission None returns None, whatever the   *)
(* score, beta and alpha are, and raises nothing.                          *)
(***************************************************************************)
C2_AbsentEmissionReturnsNone ==
    (CalledCalculate /\ EmissionOf(phase) = None) =>
        raised = "" /\ result = <<None>>

C2_Witness ==
    /\ CalledCalculate /\ EmissionOf(phase) = None
    /\ RLeq(score, Zero) /\ RLeq(alpha, One)
    /\ result = <<None>>

(***************************************************************************)
(* C3: in a triple returned by get_carburacy each phase element is defined *)
(* exactly when that phase's own emission is present; with emission_train  *)
(* None, emission_test present, score > 0 and alpha > 1, beta_test > 0 the *)
(* call returns (None, the test-phase carburacy, None).                    *)
(***************************************************************************)
C3_PhaseDefinedIffEmissionPresent ==
    /\ (CalledGet /\ raised = "") =>
          /\ (result[1] # None) <=> (emission_train # None)
          /\ (result[2] # None) <=> (emission_test # None)
    /\ (/\ CalledGet
        /\ emission_train = None /\ emission_test # None
        /\ RLess(Zero, score) /\ AlphaAboveOne /\ RLess(Zero, beta_test)) =>
          /\ raised = ""
          /\ result[1] = None
          /\ result[2] # None
          /\ result[2] = calculate_carburacy(score, emission_test, beta_test, alpha).val
          /\ result[3] = None

C3_Witness ==
    /\ CalledGet /\ raised = ""
    /\ emission_train = None /\ emission_test # None
    /\ RLess(Zero, score)
    /\ result[1] = None /\ result[2] # None /\ result[3] = None

(***************************************************************************)
(* C4 as stated: for a present emission, score in (0, 100], alpha > 1 (and *)
(* beta > 0) the score adjustment is score / 100, so the result is         *)
(* (score / 100) / (1 + emission * beta).                                  *)
(***************************************************************************)
C4_AdjustmentIsNormalizedScore ==
    (/\ CalledCalculate
     /\ EmissionOf(phase) # None
     /\ ScoreInRange /\ AlphaAboveOne /\ RLess(Zero, BetaOf(phase))) =>
        /\ raised = ""
        /\ result[1] = RDiv(RDiv(score, Hundred), Penalty(EmissionOf(phase), BetaOf(phase)))

(***************************************************************************)
(* C4 amended: for a present emission, score in (0, 100], alpha > 1 and    *)
(* beta > 0 the result times (1 + emission * beta) is the score adjustment *)
(* exp(log_alpha(score / 100)): it is 1 for score = 100, and for           *)
(* score < 100 it lies strictly between score / 100 and 1 when alpha = 10  *)
(* and strictly below score / 100 when alpha = 2.  get_carburacy(80, 0.5,  *)
(* 0.01, alpha=10, beta_train=1, beta_test=100) yields about 0.605, 0.454  *)
(* and 0.519.                                                              *)
(***************************************************************************)
C4_AdjustmentIsExpOfLog ==
    /\ (/\ CalledCalculate
        /\ EmissionOf(phase) # None
        /\ ScoreInRange /\ AlphaAboveOne /\ RLess(Zero, BetaOf(phase))) =>
          /\ raised = ""
          /\ LET adj == RMul(result[1], Penalty(EmissionOf(phase), BetaOf(phase)))
                 normalized == RDiv(score, Hundred)
             IN  /\ (score = Hundred) => (adj = One)
                 /\ (score # Hundred /\ alpha = Int2Rat(10)) =>
                        RLess(normalized, adj) /\ RLess(adj, One)
                 /\ (score # Hundred /\ alpha = Int2Rat(2)) => RLess(adj, normalized)
    /\ (/\ CalledGet
        /\ score = Int2Rat(80) /\ alpha = Int2Rat(10)
        /\ emission_train = Rat(1, 2) /\ beta_train = One
        /\ emission_test = Rat(1, 100) /\ beta_test = Hundred) =>
          /\ raised = ""
          /\ Near(result[1], 605)
          /\ Near(result[2], 454)
          /\ Near(result[3], 519)

C4_Witness ==
    /\ CalledGet /\ raised = ""
    /\ score = Int2Rat(80) /\ alpha = Int2Rat(10)
    /\ emission_train = Rat(1, 2) /\ beta_train = One
    /\ emission_test = Rat(1, 100) /\ beta_test = Hundred
    /\ ~ Near(result[1], 533) /\ ~ Near(result[2], 400) /\ ~ Near(result[3], 457)

C6_NonPositiveScoreRaises ==
    /\ (CalledCalculate /\ RLeq(score, Zero) /\ EmissionOf(phase) # None) =>
          raised = "ValueError" /\ result = <<>>
    /\ (CalledGet /\ RLeq(score, Zero)
          /\ (emission_train # None \/ emission_test # None)) =>
          raised = "ValueError" /\ result = <<>>

C6_Witness ==
    /\ CalledGet /\ score = Zero
    /\ emission_train = None /\ emission_test # None
    /\ raised = "ValueError"

(***************************************************************************)
(* C7 as stated: when both phase carburacies are defined and their sum is  *)
(* zero (here for score in (0, 100] and alpha > 1), get_carburacy returns  *)
(* with the combined value None and raises no division error.              *)
(***************************************************************************)
C7_ZeroSumReportsNone ==
    LET ct == calculate_carburacy(score, emission_train, beta_train, alpha)
        cs == calculate_carburacy(score, emission_test, beta_test, alpha)
    IN  (/\ CalledGet
         /\ ScoreInRange /\ AlphaAboveOne
         /\ ct.raised = "" /\ cs.raised = ""
         /\ ct.val # None /\ cs.val # None
         /\ RAdd(ct.val, cs.val).num = 0) =>
            raised = "" /\ result[3] = None

(***************************************************************************)
(* C8: an emission of 0 is a present measurement.  calculate_carburacy     *)
(* with emission 0 does what the score adjustment does: it raises what     *)
(* that raises, and otherwise returns exactly the score adjustment, for    *)
(* every beta.  get_carburacy with both emissions 0, score in (0, 100]     *)
(* and alpha > 1 returns three defined values, all equal to the score      *)
(* adjustment; whenever it returns with both emissions 0 the three are so. *)
(***************************************************************************)
C8_ZeroEmissionNoPenalty ==
    LET adj == ScoreAdjustment(RDiv(score, Hundred), alpha)
    IN  /\ (CalledCalculate /\ EmissionOf(phase) = Zero) =>
              /\ raised = adj.raised
              /\ (raised = "") => (result[1] # None /\ result[1] = adj.val)
        /\ (CalledGet /\ emission_train = Zero /\ emission_test = Zero) =>
              /\ (ScoreInRange /\ AlphaAboveOne) => raised = ""
              /\ (raised = "") =>
                    /\ result[1] # None /\ result[2] # None /\ result[3] # None
                    /\ result[1] = adj.val
                    /\ result[2] = adj.val
                    /\ result[3] = adj.val

C8_Witness ==
    /\ CalledGet /\ raised = ""
    /\ emission_train = Zero /\ emission_test = Zero
    /\ ScoreInRange /\ score # Hundred /\ AlphaAboveOne
    /\ beta_train # beta_test
    /\ result[3] # None /\ result[3] = result[1]

(***************************************************************************)
(* C9 as stated: with equal present emissions e >= 0 in both phases, score *)
(* in (0, 100], alpha > 1 and beta_test > beta_train > 0, the test-phase   *)
(* carburacy is strictly smaller than the train-phase carburacy.           *)
(***************************************************************************)
C9_EqualEmissions ==
    /\ CalledGet
    /\ emission_train # None /\ emission_test = emission_train
    /\ RLeq(Zero, emission_train)
    /\ ScoreInRange /\ AlphaAboveOne
    /\ RLess(Zero, beta_train) /\ RLess(beta_train, beta_test)

C9_TestStrictlyBelowTrain ==
    C9_EqualEmissions => (raised = "" /\ RLess(result[2], result[1]))

(***************************************************************************)
(* C9 amended: under the same conditions get_carburacy returns; for e > 0  *)
(* the test-phase carburacy is strictly smaller than the train-phase one,  *)
(* and a still larger beta_test lowers the test-phase value and leaves the *)
(* train-phase value unchanged; for e = 0 the two are equal and a larger   *)
(* beta_test changes neither.                                              *)
(***************************************************************************)
C9_TestBelowTrainForPositiveEmission ==
    C9_EqualEmissions =>
        /\ raised = ""
        /\ IF RLess(Zero, emission_train)
           THEN RLess(result[2], result[1])
           ELSE result[2] = result[1]
        /\ \A b2 \in Betas :
              RLess(beta_test, b2) =>
                 LET r2 == get_carburacy(score, emission_train, emission_test, alpha,
                                         beta_train, b2)
                 IN  /\ r2.raised = ""
                     /\ r2.val[1] = result[1]
                     /\ IF RLess(Zero, emission_train)
                        THEN RLess(r2.val[2], result[2])
                        ELSE r2.val[2] = result[2]

C9_Witness ==
    /\ C9_EqualEmissions /\ raised = ""
    /\ RLess(Zero, emission_train)
    /\ RLess(result[2], result[1])
    /\ \E b2 \in Betas : RLess(beta_test, b2)

(***************************************************************************)
(* C10 as stated: with the emission present and score in (0, 100] (and     *)
(* beta > 0), every alpha <= 1 makes calculate_carburacy fail with an      *)
(* error.                                                                  *)
(***************************************************************************)
C10_AlphaAtMostOneFails ==
    (/\ CalledCalculate
     /\ EmissionOf(phase) # None
     /\ ScoreInRange /\ RLess(Zero, BetaOf(phase))
     /\ RLeq(alpha, One)) => raised # ""

(***************************************************************************)
(* C10 amended: with the emission present and score in (0, 100],           *)
(* calculate_carburacy raises ValueError for alpha <= 0 and                *)
(* ZeroDivisionError for alpha = 1; for alpha = 0.5, inside (0, 1), the    *)
(* logarithm is defined and with beta > 0 the call returns a number, whose *)
(* score adjustment is at least 1.                                         *)
(***************************************************************************)
C10_LogBaseDomain ==
    (/\ CalledCalculate
     /\ EmissionOf(phase) # None
     /\ ScoreInRange) =>
        /\ RLeq(alpha, Zero) => (raised = "ValueError" /\ result = <<>>)
        /\ (alpha = One) => (raised = "ZeroDivisionError" /\ result = <<>>)
        /\ (alpha = Rat(1, 2) /\ RLess(Zero, BetaOf(phase))) =>
              /\ raised = ""
              /\ result[1] # None
              /\ RLeq(One, RMul(result[1], Penalty(EmissionOf(phase), BetaOf(phase))))

C10_Witness ==
    /\ CalledCalculate /\ raised = ""
    /\ EmissionOf(phase) # None
    /\ ScoreInRange /\ score # Hundred
    /\ alpha = Rat(1, 2)
    /\ RLess(One, result[1])

(***************************************************************************)
(* C11: get_carburacy is two independent applications of                   *)
(* calculate_carburacy with the same score and alpha: it raises what the   *)
(* train-phase application raises, else what the test-phase one raises,    *)
(* and when it returns its first element is the value of                   *)
(* calculate_carburacy(score, emission_train, beta_train, alpha) and its   *)
(* second that of calculate_carburacy(score, emission_test, beta_test,     *)
(* alpha), so that (two defined elements) first * (1 + emission_train *    *)
(* beta_train) = second * (1 + emission_test * beta_test).  When alpha,    *)
(* beta_train and beta_test are omitted they are 10, 1 and 100.            *)
(***************************************************************************)
C11_TwoIndependentApplications ==
    /\ CalledGet =>
          LET ct == calculate_carburacy(score, emission_train, beta_train, alpha)
              cs == calculate_carburacy(score, emission_test, beta_test, alpha)
          IN  /\ (ct.raised # "") => (raised = ct.raised)
              /\ (ct.raised = "" /\ cs.raised # "") => (raised = cs.raised)
              /\ (raised = "") =>
                    /\ ct.raised = "" /\ cs.raised = ""
                    /\ result[1] = ct.val
                    /\ result[2] = cs.val
                    /\ (result[1] # None /\ result[2] # None) =>
                          RMul(result[1], Penalty(emission_train, beta_train))
                              = RMul(result[2], Penalty(emission_test, beta_test))
    /\ (CalledGet /\ defaulted) =>
          /\ alpha = Int2Rat(10)
          /\ beta_train = One
          /\ beta_test = Hundred

C11_Witness ==
    /\ CalledGet /\ defaulted /\ raised = ""
    /\ emission_train # None /\ emission_test # None
    /\ RLess(Zero, emission_train) /\ emission_train = emission_test
    /\ result[1] # result[2]

(***************************************************************************)
(* main: the part that depends on the flags do_train, do_eval, do_test and *)
(* on the splits of the dataset: the column selection, the loading of the  *)
(* splits, training under the emission tracker and the two predict calls.  *)
(***************************************************************************)
Splits == {"train", "validation", "test"}

ColumnNames == {<<"article", "summary">>, <<"text", "abstract">>}

\* the datasets load_dataset can return: any of the splits, each with columns
RawDatasets == UNION {[S -> ColumnNames] : S \in SUBSET Splits}

\* what train_tracker.stop() can return: a measurement or None
TrainReadings == {None, Zero, Rat(1, 2)}

\* the score and the emission predict can measure
PredictScores == {Zero, Int2Rat(80)}

PredictEmissions == {None, Rat(1, 100)}

carbvars == <<args, fn, phase, raised, result, defaulted>>

training_args == [do_train |-> do_train, do_eval |-> do_eval, do_test |-> do_test]

Event(op, split, val, report) ==
    [op |-> op, split |-> split, val |-> val, report |-> report]

InitMain ==
    /\ score = Int2Rat(80)
    /\ emission_train = None /\ emission_test = None
    /\ alpha = Int2Rat(default_alpha)
    /\ beta_train = Int2Rat(default_beta_train)
    /\ beta_test = Int2Rat(default_beta_test)
    /\ fn = "" /\ phase = "" /\ raised = "" /\ result = <<>>
    /\ defaulted = FALSE
    /\ do_train \in BOOLEAN /\ do_eval \in BOOLEAN /\ do_test \in BOOLEAN
    /\ raw_datasets \in RawDatasets
    /\ pc = "start"
    /\ column_names = <<>>
    /\ train_emissions = <<>>
    /\ events = <<>>
    /\ main_raised = ""

Call_get_dataset_columns ==
    /\ fn = ""
    /\ LET r == get_dataset_columns(raw_datasets, training_args)
       IN  /\ fn' = "get_dataset_columns"
           /\ raised' = r.raised
           /\ result' = IF r.raised = "" THEN r.val ELSE <<>>
    /\ UNCHANGED <<args, phase, defaulted, mainvars>>

\* the inline selection of column_names
main_SelectColumns ==
    /\ pc = "start"
    /\ IF do_train
       THEN IF "train" \notin DOMAIN raw_datasets
            THEN /\ main_raised' = "ValueError" /\ pc' = "raised"
                 /\ UNCHANGED column_names
            ELSE /\ column_names' = <<raw_datasets["train"]>>
                 /\ pc' = "datasets" /\ UNCHANGED main_raised
       ELSE IF do_eval
       THEN IF "validation" \notin DOMAIN raw_datasets
            THEN /\ main_raised' = "ValueError" /\ pc' = "raised"
                 /\ UNCHANGED column_names
            ELSE /\ column_names' = <<raw_datasets["validation"]>>
                 /\ pc' = "datasets" /\ UNCHANGED main_raised
       ELSE IF do_test
       THEN IF "test" \notin DOMAIN raw_datasets
            THEN /\ main_raised' = "ValueError" /\ pc' = "raised"
                 /\ UNCHANGED column_names
            ELSE /\ column_names' = <<raw_datasets["test"]>>
                 /\ pc' = "datasets" /\ UNCHANGED main_raised
       ELSE /\ pc' = "returned"
            /\ UNCHANGED <<column_names, main_raised>>
    /\ UNCHANGED <<do_train, do_eval, do_test, raw_datasets, train_emissions,
                   events, carbvars>>

\* train_dataset, eval_dataset, test_dataset = raw_datasets[...] under their flags
main_LoadDatasets ==
    /\ pc = "datasets"
    /\ IF \/ do_train /\ "train" \notin DOMAIN raw_datasets
          \/ do_eval /\ "validation" \notin DOMAIN raw_datasets
          \/ do_test /\ "test" \notin DOMAIN raw_datasets
       THEN main_raised' = "KeyError" /\ pc' = "raised"
       ELSE pc' = "training" /\ UNCHANGED main_raised
    /\ UNCHANGED <<do_train, do_eval, do_test, raw_datasets, column_names,
                   train_emissions, events, carbvars>>

main_StartTracker ==
    /\ pc = "training" /\ do_train
    /\ events' = Append(events, Event("train_tracker.start", "", None, <<>>))
    /\ pc' = "tracking"
    /\ UNCHANGED <<do_train, do_eval, do_test, raw_datasets, column_names,
                   train_emissions, main_raised, carbvars>>

\* trainer.train returns or raises
main_Train ==
    /\ pc = "tracking"
    /\ events' = Append(events, Event("trainer.train", "", None, <<>>))
    /\ \E ok \in BOOLEAN :
          IF ok THEN pc' = "trained" /\ UNCHANGED main_raised
          ELSE pc' = "raised" /\ main_raised' = "RuntimeError"
    /\ UNCHANGED <<do_train, do_eval, do_test, raw_datasets, column_names,
                   train_emissions, carbvars>>

\* Mutant of main_StopTracker: the reading is dropped.
main_StopTracker_DropsReading ==
    /\ pc = "trained"
    /\ \E e \in TrainReadings :
          /\ events' = Append(events, Event("train_tracker.stop", "", e, <<>>))
          /\ train_emissions' = <<None>>
    /\ pc' = "evaluate"
    /\ UNCHANGED <<do_train, do_eval, do_test, raw_datasets, column_names,
                   main_raised, carbvars>>

\* train_emissions = train_tracker.stop()
main_StopTracker ==
    /\ pc = "trained"
    /\ \E e \in TrainReadings :
          /\ events' = Append(events, Event("train_tracker.stop", "", e, <<>>))
          /\ train_emissions' = <<e>>
    /\ pc' = "evaluate"
    /\ UNCHANGED <<do_train, do_eval, do_test, raw_datasets, column_names,
                   main_raised, carbvars>>

\* else: train_emissions = None
main_NoTraining ==
    /\ pc = "training" /\ ~do_train
    /\ train_emissions' = <<None>>
    /\ pc' = "evaluate"
    /\ UNCHANGED <<do_train, do_eval, do_test, raw_datasets, column_names,
                   events, main_raised, carbvars>>

\* the two predict sites, in program order: if do_eval, predict(...,
\* train_emissions, "eval"); then if do_test, predict(..., train_emissions, "test")
main_Predict ==
    /\ pc \in {"evaluate", "test"}
    /\ LET flag == IF pc = "evaluate" THEN do_eval ELSE do_test
           split == IF pc = "evaluate" THEN "eval" ELSE "test"
           next == IF pc = "evaluate" THEN "test" ELSE "done"
       IN  IF flag
           THEN \E s \in PredictScores, e \in PredictEmissions :
                   LET r == predict(s, train_emissions[1], e)
                   IN  /\ events' = Append(events,
                               Event("predict", split, train_emissions[1],
                                     IF r.raised = "" THEN r.val ELSE <<>>))
                       /\ main_raised' = r.raised
                       /\ pc' = IF r.raised = "" THEN next ELSE "raised"
           ELSE pc' = next /\ UNCHANGED <<events, main_raised>>
    /\ UNCHANGED <<do_train, do_eval, do_test, raw_datasets, column_names,
                   train_emissions, carbvars>>

NextMain ==
    \/ Call_get_dataset_columns
    \/ main_SelectColumns
    \/ main_LoadDatasets
    \/ main_StartTracker
    \/ main_Train
    \/ main_StopTracker
    \/ main_NoTraining
    \/ main_Predict

SpecMain == InitMain /\ [][NextMain]_vars

(***************************************************************************)
(* Vocabulary of the claims about main.                                    *)
(***************************************************************************)
\* the positions in events of the calls of op
Calls(op) == {i \in DOMAIN events : events[i].op = op}

\* the positions in events of the predict calls for one split
Predicts(split) == {i \in Calls("predict") : events[i].split = split}

\* the tracker is started before trainer.train, stopped after it and before
\* any predict; the validation predict precedes the test predict; each call
\* is made when its flag is set and only then
C12_CallOrder ==
    /\ \A i \in Calls("trainer.train") :
          \E j \in Calls("train_tracker.start") : j < i
    /\ \A k \in Calls("train_tracker.stop") :
          \E i \in Calls("trainer.train") : i < k
    /\ \A p \in Calls("predict") :
          /\ \A i \in Calls("trainer.train") :
                \E k \in Calls("train_tracker.stop") : i < k /\ k < p
          /\ do_train => Calls("trainer.train") # {}
    /\ \A i \in Predicts("eval"), j \in Predicts("test") : i < j
    /\ ~do_train => Calls("train_tracker.start") \cup Calls("trainer.train")
                        \cup Calls("train_tracker.stop") = {}
    /\ ~do_eval => Predicts("eval") = {}
    /\ ~do_test => Predicts("test") = {}
    /\ (do_eval /\ Predicts("test") # {}) => Predicts("eval") # {}
    /\ (pc = "done") =>
          /\ do_train => Cardinality(Calls("trainer.train")) = 1
          /\ do_eval => Cardinality(Predicts("eval")) = 1
          /\ do_test => Cardinality(Predicts("test")) = 1

\* without training no predict reports a train-phase or a combined carburacy
C12_NoTrainingNoTrainCarburacy ==
    ~do_train =>
       \A p \in Calls("predict") :
          events[p].report # <<>> =>
             events[p].report[1] = None /\ events[p].report[3] = None

Flag(split) ==
    CASE split = "train" -> do_train
      [] split = "validation" -> do_eval
      [] split = "test" -> do_test

Rank(split) ==
    CASE split = "train" -> 1
      [] split = "validation" -> 2
      [] split = "test" -> 3

\* the split whose flag is set while no flag of a higher priority is
Chosen == {s \in Splits : Flag(s) /\ \A t \in Splits : Rank(t) < Rank(s) => ~Flag(t)}

C13_SplitByPriority ==
    /\ (fn = "get_dataset_columns") =>
          /\ \A s \in Chosen :
                /\ s \in DOMAIN raw_datasets =>
                      raised = "" /\ result = <<s, raw_datasets[s]>>
                /\ s \notin DOMAIN raw_datasets => raised = "ValueError"
          /\ (Chosen = {}) <=> (raised = "AttributeError")
    /\ (pc \notin {"idle", "start"}) =>
          /\ \A s \in Chosen :
                /\ s \in DOMAIN raw_datasets =>
                      column_names = <<raw_datasets[s]>>
                /\ s \notin DOMAIN raw_datasets =>
                      /\ pc = "raised" /\ main_raised = "ValueError"
                      /\ column_names = <<>>
          /\ (Chosen = {}) <=> (pc = "returned")
          /\ (pc = "returned") => (main_raised = "" /\ column_names = <<>>)
    /\ (fn = "get_dataset_columns" /\ pc \notin {"idle", "start"}) =>
          /\ (raised = "") <=> (column_names # <<>>)
          /\ (raised = "") => (column_names = <<result[2]>>)
          /\ (raised = "ValueError") <=> (column_names = <<>> /\ main_raised = "ValueError")

\* validation is chosen though test is flagged too; train, unflagged, is present
\* with other columns
C13_Witness ==
    /\ fn = "get_dataset_columns" /\ pc \notin {"idle", "start"}
    /\ ~do_train /\ do_eval /\ do_test
    /\ DOMAIN raw_datasets = Splits
    /\ raw_datasets["train"] # raw_datasets["validation"]
    /\ raw_datasets["test"] # raw_datasets["validation"]
    /\ raised = "" /\ result = <<"validation", raw_datasets["validation"]>>
    /\ column_names = <<raw_datasets["validation"]>>

\* the flagged split is missing and a lower-priority flagged split is present
C13_WitnessMissing ==
    /\ fn = "get_dataset_columns" /\ pc = "raised"
    /\ do_train /\ do_eval
    /\ "train" \notin DOMAIN raw_datasets /\ "validation" \in DOMAIN raw_datasets
    /\ raised = "ValueError" /\ main_raised = "ValueError"

=============================================================================
